---- MODULE Spec2Model ----
(***************************************************************************)
(* wakeonwan: a command-line tool that sends Wake-on-LAN magic packets      *)
(* over UDP (src/src/main.rs).                                              *)
(*                                                                          *)
(* Strings are modelled as sequences of symbols.  The two bracket           *)
(* characters are symbols of their own; every other symbol stands for a     *)
(* bracket-free piece of text ("255.255.255.255", "::1", "wol.example"),    *)
(* so that trimming brackets, the only string manipulation of the program,  *)
(* is computed symbol by symbol as str::trim_start_matches and              *)
(* str::trim_end_matches compute it character by character.                 *)
(*                                                                          *)
(* The operating system is the environment: the resolver's answer for the   *)
(* one host name (dns), whether bind, set_broadcast and send_to succeed,    *)
(* and the RUST_LOG variable are chosen nondeterministically.               *)
(***************************************************************************)
EXTENDS Integers, Sequences, FiniteSets, TLC

(* ------------------------------- bounds -------------------------------- *)

\* Longest host string (in symbols) handed to resolve_destination.
MaxHostLen == 3

\* Longest list of MAC addresses on the command line.
MaxMacs == 2

(* ------------------------- program constants --------------------------- *)

PacketLen == 102
SyncLen == 6
MacLen == 6
Repetitions == 16
SyncByte == 255
DefaultPort == 9

(* ------------------------------ data sets ------------------------------ *)

LBracket == "["
RBracket == "]"

V4Literal == "255.255.255.255"
V6Literal == "::1"
HostName == "wol.example"

\* The symbols a host string is made of.
Symbols == {LBracket, RBracket, V4Literal, V6Literal, HostName}

RECURSIVE SeqsUpTo(_, _)
SeqsUpTo(S, n) ==
    IF n = 0 THEN {<<>>}
    ELSE LET shorter == SeqsUpTo(S, n - 1)
         IN  shorter \cup {Append(s, x) : s \in shorter, x \in S}

\* Every host string of at most MaxHostLen symbols.
Hosts == SeqsUpTo(Symbols, MaxHostLen)

\* u16 ports: the default, another common Wake-on-LAN port.
Ports == {DefaultPort, 7}

\* Byte values a MAC address is drawn from in the pure-function runs.
Bytes == {0, 17, SyncByte}

AllMacs == [1..MacLen -> Bytes]

\* The MAC addresses of the command-line runs (the two of the tests).
MacAddrs == {<<0, 17, 34, 51, 68, 85>>, <<170, 187, 204, 221, 238, 255>>}

\* clap: required = true, so at least one MAC address.
MacLists == SeqsUpTo(MacAddrs, MaxMacs) \ {<<>>}

SockAddr(family, ip, port) == [family |-> family, ip |-> ip, port |-> port]

NoAddr == SockAddr("none", "", 0)

\* What a name lookup may answer: an error, or a list of (family, ip).
DnsV4 == [family |-> "V4", ip |-> "192.0.2.1"]
DnsV6 == [family |-> "V6", ip |-> "2001:db8::1"]

DnsAnswers ==
    { [ok |-> FALSE, ips |-> <<>>],
      [ok |-> TRUE, ips |-> <<>>],
      [ok |-> TRUE, ips |-> <<DnsV4>>],
      [ok |-> TRUE, ips |-> <<DnsV6>>],
      [ok |-> TRUE, ips |-> <<DnsV4, DnsV6>>],
      [ok |-> TRUE, ips |-> <<DnsV6, DnsV4>>] }

\* A parsed http::Uri: it has a host, or it has none (a path-only URI).
NoHostUri == [has_host |-> FALSE, host |-> <<>>]

Uris ==
    {NoHostUri} \cup
    { [has_host |-> TRUE, host |-> h] :
        h \in { <<V4Literal>>, <<V6Literal>>, <<HostName>>,
                <<LBracket, V6Literal, RBracket>> } }

\* RUST_LOG in the environment: unset, or a level.
RustLogValues == {"unset", "error", "info"}

(* --------------------------- pure functions ---------------------------- *)

\* str::trim_start_matches(c): drops every leading occurrence of c.
RECURSIVE trim_start_matches(_, _)
trim_start_matches(s, c) ==
    IF s # <<>> /\ Head(s) = c THEN trim_start_matches(Tail(s), c) ELSE s

\* str::trim_end_matches(c): drops every trailing occurrence of c.
RECURSIVE trim_end_matches(_, _)
trim_end_matches(s, c) ==
    IF s # <<>> /\ s[Len(s)] = c
    THEN trim_end_matches(SubSeq(s, 1, Len(s) - 1), c)
    ELSE s

\* Variant: drops at most one bracket on each side (strip_prefix/strip_suffix).
host_clean_single(host) ==
    LET a == IF host # <<>> /\ Head(host) = LBracket THEN Tail(host) ELSE host
    IN  IF a # <<>> /\ a[Len(a)] = RBracket
        THEN SubSeq(a, 1, Len(a) - 1)
        ELSE a

\* Variant: only the leading brackets are dropped.
host_clean_leading_only(host) == trim_start_matches(host, LBracket)

\* let host_clean = host.trim_start_matches('[').trim_end_matches(']');
host_clean(host) ==
    trim_end_matches(trim_start_matches(host, LBracket), RBracket)

\* (host_clean, port).to_socket_addrs(): the text is tried as an IPv4
\* literal, then as an IPv6 literal, and otherwise handed to the system
\* resolver, whose answer env gives for the one known name; any other
\* text (empty, with a bracket left in it, or an unknown name) is an error.
\* Every address yielded carries the port given.
to_socket_addrs(host, port, env) ==
    IF host = <<V4Literal>>
    THEN [ok |-> TRUE, addrs |-> <<SockAddr("V4", V4Literal, port)>>]
    ELSE IF host = <<V6Literal>>
    THEN [ok |-> TRUE, addrs |-> <<SockAddr("V6", V6Literal, port)>>]
    ELSE IF host = <<HostName>> /\ env.ok
    THEN [ok |-> TRUE,
          addrs |-> [k \in 1..Len(env.ips) |->
                       SockAddr(env.ips[k].family, env.ips[k].ip, port)]]
    ELSE [ok |-> FALSE, addrs |-> <<>>]

Ok(addr) == [ok |-> TRUE, addr |-> addr, err |-> "none"]
Err(msg) == [ok |-> FALSE, addr |-> NoAddr, err |-> msg]

\* Variant: takes the last address of the lookup instead of the first, and
\* treats an empty answer as the unspecified address.
first_addr_last(answer) ==
    IF ~answer.ok THEN Err("Resolving")
    ELSE IF answer.addrs = <<>> THEN Ok(NoAddr)
    ELSE Ok(answer.addrs[Len(answer.addrs)])

\* .with_context(..)?.next().ok_or_else(..): the lookup's error, or its
\* first address, or an error when it yields none.
first_addr(answer) ==
    IF ~answer.ok THEN Err("Resolving")
    ELSE IF answer.addrs = <<>> THEN Err("No addresses found")
    ELSE Ok(Head(answer.addrs))

resolve_destination(host, port, env) ==
    first_addr(to_socket_addrs(host_clean(host), port, env))

\* pkt[lo..hi].copy_from_slice(src), with 0-based half-open [lo, hi).
copy_from_slice(pkt, lo, hi, src) ==
    [k \in 1..Len(pkt) |-> IF lo < k /\ k <= hi THEN src[k - lo] ELSE pkt[k]]

\* for i in 0..16 { pkt[6 + i*6 .. 12 + i*6].copy_from_slice(mac) }
RECURSIVE fill_repetitions(_, _, _, _)
fill_repetitions(pkt, i, n, mac) ==
    IF i >= n THEN pkt
    ELSE fill_repetitions(
             copy_from_slice(pkt, SyncLen + i * MacLen,
                             SyncLen + MacLen + i * MacLen, mac),
             i + 1, n, mac)

\* Variant: one repetition short (for i in 0..15).
magic_packet_short(mac) ==
    fill_repetitions(
        copy_from_slice([k \in 1..PacketLen |-> 0], 0, SyncLen,
                        [k \in 1..SyncLen |-> SyncByte]),
        0, Repetitions - 1, mac)

magic_packet(mac) ==
    fill_repetitions(
        copy_from_slice([k \in 1..PacketLen |-> 0], 0, SyncLen,
                        [k \in 1..SyncLen |-> SyncByte]),
        0, Repetitions, mac)

(* -------------------------------- state -------------------------------- *)

VARIABLES
    args,       \* the parsed command line (struct Args)
    rust_log,   \* the RUST_LOG environment variable
    dns,        \* the system resolver's answer for HostName
    pc,         \* where main is
    filter,     \* the log filter env_logger was initialised with
    host,       \* main's local `host`
    looked,     \* the strings handed to to_socket_addrs, in call order
    answer,     \* what the last lookup yielded
    res,        \* the Result of the last resolve_destination call
    src,        \* the UDP socket
    calls,      \* the socket calls made so far, in order
    i,          \* how many MAC addresses the loop has gone through
    sent,       \* the datagrams handed to send_to, with each call's outcome
    log,        \* the records handed to the log macros, in order
    err,        \* the setup step that failed, "none" if none
    result,     \* what main returned: "running", "Ok" or "Err"
    call,       \* the last direct call of a pure function (its arguments)
    pkt         \* the value the last magic_packet call returned

vars ==
    <<args, rust_log, dns, pc, filter, host, looked, answer, res, src, calls,
      i, sent, log, err, result, call, pkt>>

NoSocket == [bound |-> FALSE, local |-> "", broadcast |-> FALSE]
NoAnswer == [ok |-> FALSE, addrs |-> <<>>]
NoCall == [fn |-> "none", host |-> <<>>, port |-> 0, mac |-> <<>>]

ArgsSet ==
    [host : Uris, port : Ports, verbose : BOOLEAN, dry_run : BOOLEAN,
     mac : MacLists]

\* main's local `dest`, once resolve_destination has returned Ok.
dest == res.addr

LogRecord(level, msg, mac) == [level |-> level, msg |-> msg, mac |-> mac]

\* The process exit status of `fn main() -> Result<()>`.
ExitStatus == IF result = "Ok" THEN 0 ELSE 1

\* log::Level order, with the filter "off" below every level.
LevelRank(l) ==
    CASE l = "off" -> 0
      [] l = "error" -> 1
      [] l = "warn" -> 2
      [] l = "info" -> 3
      [] l = "debug" -> 4
      [] l = "trace" -> 5

\* What the logger lets through to stderr.
Printed ==
    SelectSeq(log, LAMBDA r : LevelRank(r.level) <= LevelRank(filter))

Init ==
    /\ args \in ArgsSet
    /\ rust_log \in RustLogValues
    /\ dns \in DnsAnswers
    /\ pc = "init_logger"
    /\ filter = "off"
    /\ host = <<>>
    /\ looked = <<>>
    /\ answer = NoAnswer
    /\ res = Err("none")
    /\ src = NoSocket
    /\ calls = <<>>
    /\ i = 0
    /\ sent = <<>>
    /\ log = <<>>
    /\ err = "none"
    /\ result = "running"
    /\ call = NoCall
    /\ pkt = <<>>

(* ------------------------------- main ---------------------------------- *)

\* Variant: the error is noted but main goes on to the send loop.
setup_fail_ignored(step) ==
    /\ err' = step
    /\ result' = result
    /\ pc' = "send"

\* The `?` operator: main returns the error at once.
setup_fail(step) ==
    /\ err' = step
    /\ result' = "Err"
    /\ pc' = "exit"

\* env_logger::Env::default().filter_or("RUST_LOG", ..); init_from_env(env)
InitLogger ==
    /\ pc = "init_logger"
    /\ filter' = IF rust_log # "unset" THEN rust_log
                 ELSE IF args.verbose THEN "trace" ELSE "off"
    /\ pc' = "host"
    /\ UNCHANGED <<args, rust_log, dns, host, looked, answer, res, src, calls,
                   i, sent, log, err, result, call, pkt>>

\* args.host.host().ok_or_else(..)?.to_string()
ExtractHost ==
    /\ pc = "host"
    /\ IF args.host.has_host
       THEN /\ host' = args.host.host
            /\ log' = Append(log, LogRecord("debug", "Resolved uri", <<>>))
            /\ pc' = "resolve"
            /\ UNCHANGED <<err, result>>
       ELSE /\ setup_fail("hostname")
            /\ UNCHANGED <<host, log>>
    /\ UNCHANGED <<args, rust_log, dns, filter, looked, answer, res, src,
                   calls, i, sent, call, pkt>>

\* let dest = resolve_destination(host.as_str(), args.port)?;
Resolve ==
    /\ pc = "resolve"
    /\ looked' = Append(looked, host_clean(host))
    /\ answer' = to_socket_addrs(host_clean(host), args.port, dns)
    /\ res' = resolve_destination(host, args.port, dns)
    /\ IF res'.ok
       THEN /\ log' = Append(log, LogRecord("debug", "Resolved hostname", <<>>))
            /\ pc' = "bind"
            /\ UNCHANGED <<err, result>>
       ELSE /\ setup_fail("resolve")
            /\ UNCHANGED log
    /\ UNCHANGED <<args, rust_log, dns, filter, host, src, calls, i, sent,
                   call, pkt>>

\* match dest { V4(_) => bind("0.0.0.0:0")?, V6(_) => bind(("::", 0))? }
bind_addr(d) == IF d.family = "V4" THEN "0.0.0.0:0" ELSE "[::]:0"

Bind ==
    /\ pc = "bind"
    /\ calls' = Append(calls, [op |-> "bind", arg |-> bind_addr(dest)])
    /\ \E ok \in BOOLEAN :
          IF ok
          THEN /\ src' = [bound |-> TRUE, local |-> bind_addr(dest),
                          broadcast |-> FALSE]
               /\ log' = Append(log, LogRecord("debug", "Bound to", <<>>))
               /\ pc' = "broadcast"
               /\ UNCHANGED <<err, result>>
          ELSE /\ setup_fail("bind")
               /\ UNCHANGED <<src, log>>
    /\ UNCHANGED <<args, rust_log, dns, filter, host, looked, answer, res, i,
                   sent, call, pkt>>

\* Variant: broadcast is wanted whatever the family.
wants_broadcast_always(d) == TRUE

\* if let SocketAddr::V4(_) = dest
wants_broadcast(d) == d.family = "V4"

\* src.set_broadcast(true).map_err(..)?  for an IPv4 destination only
SetBroadcast ==
    /\ pc = "broadcast"
    /\ IF wants_broadcast(dest)
       THEN /\ calls' = Append(calls, [op |-> "set_broadcast", arg |-> "true"])
            /\ \E ok \in BOOLEAN :
                  IF ok
                  THEN /\ src' = [src EXCEPT !.broadcast = TRUE]
                       /\ pc' = "send"
                       /\ UNCHANGED <<err, result>>
                  ELSE /\ setup_fail("broadcast")
                       /\ UNCHANGED src
       ELSE /\ pc' = "send"
            /\ UNCHANGED <<calls, src, err, result>>
    /\ UNCHANGED <<args, rust_log, dns, filter, host, looked, answer, res, i,
                   sent, log, call, pkt>>

(* -------------------------- send_magic_packets ------------------------- *)

\* Variant: the list is walked from its end.
current_mac_reversed(macs, n) == macs[Len(macs) - n]

\* for mac in &cfg.mac: the address of the iteration after n finished ones.
current_mac(macs, n) == macs[n + 1]

\* Variant: the dry-run flag is not looked at.
skips_send_never(cfg) == FALSE

\* if cfg.dry_run { continue; }
skips_send(cfg) == cfg.dry_run

\* Variant: the first failed send ends the loop, without a report.
after_send_break(mac, ok) ==
    /\ i' = IF ok THEN i + 1 ELSE Len(args.mac)
    /\ log' = Append(log, LogRecord("info", "Sending magic packet", mac))
    /\ UNCHANGED <<pc, err, result>>

\* Variant: a failed send is returned as main's error.
after_send_propagate(mac, ok) ==
    /\ i' = i + 1
    /\ log' = Append(log, LogRecord("info", "Sending magic packet", mac))
    /\ IF ok
       THEN UNCHANGED <<pc, err, result>>
       ELSE /\ pc' = "exit"
            /\ result' = "Err"
            /\ UNCHANGED err

\* if let Err(e) = src.send_to(&pkt, dest) { error!(..) }, then the next
\* iteration: the failure is logged and nothing else happens.
after_send(mac, ok) ==
    /\ i' = i + 1
    /\ log' = IF ok
              THEN Append(log, LogRecord("info", "Sending magic packet", mac))
              ELSE Append(log, LogRecord("info", "Sending magic packet", mac))
                   \o <<LogRecord("error", "Can't send magic packet", mac)>>
    /\ UNCHANGED <<pc, err, result>>

\* One iteration of the loop of send_magic_packets.
SendOne ==
    /\ pc = "send"
    /\ i < Len(args.mac)
    /\ LET mac == current_mac(args.mac, i)
       IN  IF skips_send(args)
           THEN /\ i' = i + 1
                /\ log' = Append(log,
                              LogRecord("info", "Sending magic packet", mac))
                /\ UNCHANGED <<sent, calls, pc, err, result>>
           ELSE \E ok \in BOOLEAN :
                   /\ sent' = Append(sent, [payload |-> magic_packet(mac),
                                            to |-> dest, ok |-> ok])
                   /\ calls' = Append(calls, [op |-> "send_to", arg |-> ""])
                   /\ after_send(mac, ok)
    /\ UNCHANGED <<args, rust_log, dns, filter, host, looked, answer, res, src,
                   call, pkt>>

\* The loop is over: send_magic_packets returns, and main returns Ok(()).
Return ==
    /\ pc = "send"
    /\ i >= Len(args.mac)
    /\ pc' = "exit"
    /\ result' = "Ok"
    /\ UNCHANGED <<args, rust_log, dns, filter, host, looked, answer, res, src,
                   calls, i, sent, log, err, call, pkt>>

Next ==
    \/ InitLogger
    \/ ExtractHost
    \/ Resolve
    \/ Bind
    \/ SetBroadcast
    \/ SendOne
    \/ Return

Spec == Init /\ [][Next]_vars

(* ------------------- the pure functions called directly ---------------- *)

\* One call of a public function per run, on arguments of any value: pc goes
\* from "pure" to "returned".

InitPure ==
    /\ args = [host |-> NoHostUri, port |-> DefaultPort, verbose |-> FALSE,
               dry_run |-> FALSE, mac |-> <<>>]
    /\ rust_log = "unset"
    /\ dns \in DnsAnswers
    /\ pc = "pure"
    /\ filter = "off"
    /\ host = <<>>
    /\ looked = <<>>
    /\ answer = NoAnswer
    /\ res = Err("none")
    /\ src = NoSocket
    /\ calls = <<>>
    /\ i = 0
    /\ sent = <<>>
    /\ log = <<>>
    /\ err = "none"
    /\ result = "running"
    /\ call = NoCall
    /\ pkt = <<>>

\* resolve_destination(h, p), as the unit tests call it.
CallResolve ==
    /\ pc = "pure"
    /\ \E h \in Hosts, p \in Ports :
          /\ call' = [fn |-> "resolve_destination", host |-> h, port |-> p,
                      mac |-> <<>>]
          /\ looked' = <<host_clean(h)>>
          /\ answer' = to_socket_addrs(host_clean(h), p, dns)
          /\ res' = resolve_destination(h, p, dns)
    /\ pc' = "returned"
    /\ UNCHANGED <<args, rust_log, dns, filter, host, src, calls, i, sent,
                   log, err, result, pkt>>

\* magic_packet(&mac), as the unit test calls it.
CallMagicPacket ==
    /\ pc = "pure"
    /\ \E m \in AllMacs :
          /\ call' = [fn |-> "magic_packet", host |-> <<>>, port |-> 0,
                      mac |-> m]
          /\ pkt' = magic_packet(m)
    /\ pc' = "returned"
    /\ UNCHANGED <<args, rust_log, dns, filter, host, looked, answer, res,
                   src, calls, i, sent, log, err, result>>

NextPure ==
    \/ CallResolve
    \/ CallMagicPacket

SpecPure == InitPure /\ [][NextPure]_vars

(* ------------------------ helpers of the properties -------------------- *)

HasCall(op) == \E k \in 1..Len(calls) : calls[k].op = op

Macs(records) == [k \in 1..Len(records) |-> records[k].mac]

InfoReports == SelectSeq(log, LAMBDA r : r.level = "info")
ErrorReports == SelectSeq(log, LAMBDA r : r.level = "error")

\* The payload layout of a magic packet for MAC address m, written out.
IsMagicPacketFor(p, m) ==
    /\ Len(p) = 102
    /\ \A k \in 1..6 : p[k] = 255
    /\ \A r \in 0..15 : \A j \in 1..6 : p[6 + 6 * r + j] = m[j]

\* The MAC addresses of the first n sends that failed, in order.
RECURSIVE FailedMacs(_)
FailedMacs(n) ==
    IF n = 0 THEN <<>>
    ELSE IF sent[n].ok THEN FailedMacs(n - 1)
    ELSE Append(FailedMacs(n - 1), args.mac[n])

\* How many copies of c the string s begins with, and ends with.
RECURSIVE LeadCount(_, _)
LeadCount(s, c) ==
    IF s = <<>> \/ Head(s) # c THEN 0 ELSE 1 + LeadCount(Tail(s), c)

RECURSIVE TrailCount(_, _)
TrailCount(s, c) ==
    IF s = <<>> \/ s[Len(s)] # c THEN 0
    ELSE 1 + TrailCount(SubSeq(s, 1, Len(s) - 1), c)

\* A setup step has failed, told from what happened rather than from err.
HostnameMissing == pc \notin {"init_logger", "host", "pure", "returned"}
                   /\ ~args.host.has_host
ResolutionFailed == pc \notin {"pure", "returned"} /\ looked # <<>> /\ ~res.ok
BindFailed == HasCall("bind") /\ ~src.bound
BroadcastFailed == HasCall("set_broadcast") /\ ~src.broadcast

SetupFailed ==
    HostnameMissing \/ ResolutionFailed \/ BindFailed \/ BroadcastFailed

Resolved == pc = "returned" /\ call.fn = "resolve_destination"

(* ------------------------------ properties ----------------------------- *)

\* C1: for every 6-byte MAC address m, magic_packet(m) is 102 bytes long,
\* its bytes 0..5 are 0xFF and its bytes [6+6i, 12+6i) are m for every i in
\* 0..15.
C1_MagicPacketLayout ==
    (pc = "returned" /\ call.fn = "magic_packet") =>
        /\ Len(pkt) = 102
        /\ \A k \in 1..6 : pkt[k] = 255
        /\ \A r \in 0..15 : \A j \in 1..6 : pkt[6 + 6 * r + j] = call.mac[j]

C1_Witness ==
    /\ pc = "returned"
    /\ call.fn = "magic_packet"
    /\ call.mac = <<0, 17, 255, 255, 17, 0>>
    /\ pkt[102] = 0
    /\ pkt[97] = 0
    /\ pkt[99] = 255

\* C2: with dry-run off, the datagrams handed to the socket are at every
\* moment the magic packets of the first i MAC addresses of the list, in
\* list order, one 102-byte datagram each, all to the one destination of the
\* run; and main returns Ok only when i is the length of the list.
C2_SendsEachOnceInOrder ==
    /\ (pc = "exit" /\ result = "Ok") => i = Len(args.mac)
    /\ ~args.dry_run =>
          /\ Len(sent) = i
          /\ i <= Len(args.mac)
          /\ \A k \in 1..Len(sent) :
                /\ IsMagicPacketFor(sent[k].payload, args.mac[k])
                /\ sent[k].to = dest
                /\ sent[k].to.port = args.port

C2_Witness ==
    /\ pc = "exit"
    /\ result = "Ok"
    /\ ~args.dry_run
    /\ Len(sent) = 2
    /\ args.mac[1] # args.mac[2]
    /\ sent[1].payload # sent[2].payload

\* C3: a failed send never stops the batch: once a datagram has been handed
\* to the socket, main ends only after one was handed over for every MAC
\* address, and the error reports are exactly the MAC addresses of the failed
\* sends, one each, in order (reports are the records handed to error!).
C3_FailedSendDoesNotStopBatch ==
    ~args.dry_run =>
        /\ (pc = "exit" /\ sent # <<>>) => Len(sent) = Len(args.mac)
        /\ (sent # <<>> /\ Len(sent) < Len(args.mac)) => pc = "send"
        /\ Len(sent) <= Len(args.mac)
        /\ Macs(ErrorReports) = FailedMacs(Len(sent))

C3_Witness ==
    /\ pc = "exit"
    /\ ~args.dry_run
    /\ Len(sent) = 2
    /\ ~sent[1].ok
    /\ sent[2].ok
    /\ Len(ErrorReports) = 1

\* C4: in dry-run mode no datagram is ever handed to the socket, the
\* intended action is reported once per MAC address gone through, in list
\* order, and no error is reported.
C4_DryRunSendsNothing ==
    args.dry_run =>
        /\ sent = <<>>
        /\ ~HasCall("send_to")
        /\ i <= Len(args.mac)
        /\ Macs(InfoReports) = SubSeq(args.mac, 1, i)
        /\ ErrorReports = <<>>
        /\ (pc = "exit" /\ result = "Ok") => i = Len(args.mac)

C4_Witness ==
    /\ args.dry_run
    /\ pc = "exit"
    /\ result = "Ok"
    /\ Len(args.mac) = 2
    /\ Len(InfoReports) = 2
    /\ sent = <<>>

\* C5: when a setup step fails (no hostname in the URI, resolution, bind,
\* set_broadcast), main has returned an error, the exit status is not zero,
\* and no send was attempted: no loop iteration, no datagram, no report of a
\* send.
C5_SetupErrorAborts ==
    SetupFailed =>
        /\ pc = "exit"
        /\ result = "Err"
        /\ ExitStatus # 0
        /\ err # "none"
        /\ i = 0
        /\ sent = <<>>
        /\ ~HasCall("send_to")
        /\ InfoReports = <<>>

C5_Witness ==
    /\ BroadcastFailed
    /\ pc = "exit"
    /\ err = "broadcast"
    /\ src.bound

\* C6: when main has ended and no setup step failed, it returned Ok, the
\* exit status is zero and every MAC address was gone through, however many
\* sends failed.
C6_ExitZeroAfterSetup ==
    (pc = "exit" /\ ~SetupFailed) =>
        /\ result = "Ok"
        /\ ExitStatus = 0
        /\ i = Len(args.mac)
        /\ ~args.dry_run => Len(sent) = Len(args.mac)

C6_Witness ==
    /\ pc = "exit"
    /\ ~SetupFailed
    /\ ExitStatus = 0
    /\ Len(sent) = 2
    /\ ~sent[1].ok
    /\ ~sent[2].ok

\* C7: resolve_destination(host, port) fails exactly when the lookup errors
\* or yields no address; otherwise it returns the first address the lookup
\* yielded, with the port given, IPv4 for the IPv4 literal and IPv6 for the
\* IPv6 literal.
C7_ResolveFirstOrFail ==
    Resolved =>
        /\ ~res.ok <=> (~answer.ok \/ answer.addrs = <<>>)
        /\ res.ok =>
              /\ res.addr = answer.addrs[1]
              /\ res.addr.port = call.port
        /\ call.host = <<V4Literal>> => (res.ok /\ res.addr.family = "V4")
        /\ call.host = <<V6Literal>> => (res.ok /\ res.addr.family = "V6")

C7_Witness ==
    /\ Resolved
    /\ res.ok
    /\ Len(answer.addrs) = 2
    /\ res.addr.family = "V6"
    /\ answer.addrs[2].family = "V4"

\* C8: for every host h and port p, resolve_destination("[" + h + "]", p)
\* has the outcome of resolve_destination(h, p): the same address and port,
\* or a failure in both cases.
C8_BracketsTransparent ==
    Resolved =>
        LET bracketed ==
                resolve_destination(<<LBracket>> \o call.host \o <<RBracket>>,
                                    call.port, dns)
        IN  /\ bracketed.ok = res.ok
            /\ bracketed.addr = res.addr

C8_Witness ==
    /\ Resolved
    /\ call.host = <<LBracket, V6Literal>>
    /\ res.ok
    /\ res.addr.family = "V6"

\* C9 as stated: only one leading '[' and one trailing ']' are stripped: a
\* host with k >= 1 brackets on a side reaches the lookup with k - 1 on that
\* side, a host without brackets unchanged.
C9_StripsOneBracketOnly ==
    Resolved =>
        LET h == call.host
            l == looked[1]
        IN  /\ LeadCount(h, LBracket) >= 1 =>
                  LeadCount(l, LBracket) = LeadCount(h, LBracket) - 1
            /\ TrailCount(h, RBracket) >= 1 =>
                  TrailCount(l, RBracket) = TrailCount(h, RBracket) - 1
            /\ (LeadCount(h, LBracket) = 0 /\ TrailCount(h, RBracket) = 0) =>
                  l = h

\* C9 amended: every leading '[' and every trailing ']' is stripped: the one
\* string handed to the lookup is the host without its leading '[' run and
\* then without the trailing ']' run of what is left, so it neither begins
\* with '[' nor ends with ']'; a host with at most one bracket on each side
\* loses exactly those, and a host without them is passed unchanged.
C9_StripsAllBrackets ==
    Resolved =>
        LET h == call.host
            a == SubSeq(h, LeadCount(h, LBracket) + 1, Len(h))
            l == SubSeq(a, 1, Len(a) - TrailCount(a, RBracket))
        IN  /\ looked = <<l>>
            /\ LeadCount(l, LBracket) = 0
            /\ TrailCount(l, RBracket) = 0
            /\ (LeadCount(h, LBracket) = 0 /\ TrailCount(h, RBracket) = 0) =>
                  l = h

C9_Witness ==
    /\ Resolved
    /\ call.host = <<LBracket, LBracket, V6Literal>>
    /\ looked = << <<V6Literal>> >>
    /\ res.ok

\* C10: the socket is bound to 0.0.0.0:0 for an IPv4 destination and to
\* [::]:0 for an IPv6 one; set_broadcast is called if and only if the
\* destination is IPv4 (never for IPv6); and every send_to comes after a
\* successful bind and, for IPv4, after a successful set_broadcast.
C10_SocketFollowsFamily ==
    /\ \A k \in 1..Len(calls) :
          /\ calls[k].op = "bind" =>
                /\ k = 1
                /\ calls[k].arg =
                       IF dest.family = "V4" THEN "0.0.0.0:0" ELSE "[::]:0"
          /\ calls[k].op = "set_broadcast" =>
                /\ k = 2
                /\ dest.family = "V4"
          /\ calls[k].op = "send_to" =>
                /\ calls[1].op = "bind"
                /\ src.bound
                /\ dest.family = "V4" =>
                      /\ k > 2
                      /\ calls[2].op = "set_broadcast"
                      /\ src.broadcast
    /\ src.bound =>
          src.local = IF dest.family = "V4" THEN "0.0.0.0:0" ELSE "[::]:0"
    /\ (pc = "send" \/ sent # <<>>) =>
          (HasCall("set_broadcast") <=> dest.family = "V4")
    /\ dest.family = "V6" => ~src.broadcast

C10_Witness ==
    /\ dest.family = "V6"
    /\ pc = "exit"
    /\ Len(sent) = 2
    /\ src.local = "[::]:0"
    /\ ~HasCall("set_broadcast")

====
